---- MODULE Spec2Model ----
(***************************************************************************)
(* Pediatric Diabetes Risk Calculator (app.py): one Streamlit script run   *)
(* per page interaction.  A run loads the classifier, picks a page, reads  *)
(* the form and, when the form was submitted, encodes the inputs, queries  *)
(* the classifier, writes the result and the health suggestions and, for   *)
(* an at-risk prediction, probes BMI, Glucose and Insulin one at a time.   *)
(*                                                                         *)
(* Units: the BMI column holds hundredths (24.31 is 2431); probabilities   *)
(* are k / MaxProb for k in 0..MaxProb.                                    *)
(***************************************************************************)
EXTENDS Integers, Sequences, FiniteSets, TLC

\* ---------------------------------------------------------------- bounds
MaxProb == 2
MaxRuns == 2

\* ------------------------------------------------------ program constants
BmiThreshold     == 22
GlucoseThreshold == 110
InsulinThreshold == 25
BloodPressureThreshold == 120
HealthyBMI     == 20
HealthyGlucose == 100
HealthyInsulin == 20

\* a Python name that is not bound yet in this script run
Unbound == -1
None    == "None"

\* ------------------------------------------------------------ form inputs
\* values the widgets of the form can return (subsets of the widget ranges)
Ages      == {5, 17}
Heights   == {100, 120}
Weights   == {22, 35}
Glucoses  == {110, 130}
Insulins  == {25, 30}
BloodPressures == {120, 130}
Sexes     == {"Male", "Female"}
Activities == {"Sedentary", "Moderate", "Active"}
FamilyHistories == {"Yes", "No"}
Pages     == {"Home", "About"}

ProbLevels == 0..MaxProb

\* ---------------------------------------------------------- pure helpers
\* round(n / d) to the nearest integer, ties to even (Python's round)
RoundDiv(n, d) ==
    LET q == n \div d
        r == n % d
    IN  IF 2 * r > d \/ (2 * r = d /\ q % 2 = 1) THEN q + 1 ELSE q

\* round(weight / ((height / 100) ** 2), 2), in hundredths
Bmi(weight_, height_) == RoundDiv(weight_ * 1000000, height_ * height_)

SexEncodedSwapped(sex_) == IF sex_ = "Male" THEN 0 ELSE 1

SexEncoded(sex_) == IF sex_ = "Male" THEN 1 ELSE 0

activity_map == [Sedentary |-> 0, Moderate |-> 1, Active |-> 2]

FamilyHistoryEncoded(fh) == IF fh = "Yes" THEN 1 ELSE 0

Columns == << "Age", "Sex", "BMI", "Glucose", "Insulin",
              "BloodPressure", "PhysicalActivityLevel", "FamilyHistory" >>

\* pd.DataFrame([[...]], columns=[...]): one row, named columns
DataFrame(row, cols) == [columns |-> cols, values |-> row]

ColIndex(df, name) == CHOOSE i \in 1..Len(df.columns) : df.columns[i] = name

\* df[name] = v
SetCol(df, name, v) == [df EXCEPT !.values[ColIndex(df, name)] = v]

\* the objects a script run can hold data frames in
Refs == {"df1", "df2"}

CopyTargetAlias(src) == src

\* DataFrame.copy() returns a new object (deep copy is the default)
CopyTarget(src) == "df2"

\* ------------------------------------------------------------------ state
VARIABLES
    pc,             \* position of the script run
    run,            \* script runs started in this process
    loads,          \* joblib.load calls made in this process
    model,          \* the handle bound to the name model (0: unbound)
    page, submitted,
    age, height, weight, glucose, insulin, blood_pressure,
    sex, activity, family_history,
    bmi, sex_encoded, activity_encoded, family_history_encoded,
    heap,           \* data frame objects
    input_data, what_if_data,   \* names bound to data frame objects
    prediction, probability,
    changes,        \* dict, as its items in insertion order
    queries,        \* classifier calls made by this run, in order
    delivered       \* elements written to the page by this run, in order

formVars == << age, height, weight, glucose, insulin, blood_pressure,
               sex, activity, family_history >>
encVars  == << bmi, sex_encoded, activity_encoded, family_history_encoded >>
procVars == << run, loads, model >>
vars == << pc, run, loads, model, page, submitted,
           age, height, weight, glucose, insulin, blood_pressure,
           sex, activity, family_history,
           bmi, sex_encoded, activity_encoded, family_history_encoded,
           heap, input_data, what_if_data, prediction, probability,
           changes, queries, delivered >>

\* the names of a fresh script run
FreshRun ==
    /\ page = None /\ submitted = FALSE
    /\ age = Unbound /\ height = Unbound /\ weight = Unbound
    /\ glucose = Unbound /\ insulin = Unbound /\ blood_pressure = Unbound
    /\ sex = None /\ activity = None /\ family_history = None
    /\ bmi = Unbound /\ sex_encoded = Unbound
    /\ activity_encoded = Unbound /\ family_history_encoded = Unbound
    /\ heap = [r \in Refs |-> None]
    /\ input_data = None /\ what_if_data = None
    /\ prediction = Unbound /\ probability = Unbound
    /\ changes = << >> /\ queries = << >> /\ delivered = << >>

Init ==
    /\ pc = "start"
    /\ run = 1
    /\ loads = 0
    /\ model = 0
    /\ FreshRun

\* ---------------------------------------------------------------- actions
\* model = joblib.load('diabetes_dataset_model.pkl')
LoadModel ==
    /\ pc = "start"
    /\ loads' = loads + 1
    /\ model' = loads + 1
    /\ pc' = "page"
    /\ UNCHANGED << run, page, submitted, formVars, encVars, heap, input_data,
                    what_if_data, prediction, probability, changes, queries,
                    delivered >>

\* page = st.sidebar.radio("Navigation", ["Home", "About"])
SelectPage ==
    /\ pc = "page"
    /\ \E p \in Pages :
        /\ page' = p
        /\ pc' = IF p = "Home" THEN "form" ELSE "about"
    /\ UNCHANGED << procVars, submitted, formVars, encVars, heap, input_data,
                    what_if_data, prediction, probability, changes, queries,
                    delivered >>

\* elif page == "About": static text only
About ==
    /\ pc = "about"
    /\ pc' = "done"
    /\ UNCHANGED << procVars, page, submitted, formVars, encVars, heap,
                    input_data, what_if_data, prediction, probability, changes,
                    queries, delivered >>

\* with st.form("risk_form"): the widgets return their values
Form ==
    /\ pc = "form"
    /\ \E a \in Ages, h \in Heights, w \in Weights, g \in Glucoses,
          i \in Insulins, b \in BloodPressures, s \in Sexes,
          act \in Activities, fh \in FamilyHistories, sub \in BOOLEAN :
        /\ age' = a /\ height' = h /\ weight' = w /\ glucose' = g
        /\ insulin' = i /\ blood_pressure' = b /\ sex' = s
        /\ activity' = act /\ family_history' = fh
        /\ submitted' = sub
        /\ pc' = IF sub THEN "encode" ELSE "done"
    /\ UNCHANGED << procVars, page, encVars, heap, input_data, what_if_data,
                    prediction, probability, changes, queries, delivered >>

\* bmi, the three encodings and input_data
Encode ==
    /\ pc = "encode"
    /\ bmi' = Bmi(weight, height)
    /\ sex_encoded' = SexEncoded(sex)
    /\ activity_encoded' = activity_map[activity]
    /\ family_history_encoded' = FamilyHistoryEncoded(family_history)
    /\ input_data' = "df1"
    /\ heap' = [heap EXCEPT !["df1"] =
                  DataFrame(<< age, sex_encoded', bmi', glucose, insulin,
                               blood_pressure, activity_encoded',
                               family_history_encoded' >>, Columns)]
    /\ pc' = "predict"
    /\ UNCHANGED << procVars, page, submitted, formVars, what_if_data,
                    prediction, probability, changes, queries, delivered >>

\* one classifier call, as the classifier saw it
Call(fn, probe, df, ok, result) ==
    [fn |-> fn, handle |-> model, probe |-> probe, arg |-> df, ok |-> ok,
     result |-> result]

\* prediction = model.predict(input_data)[0]
Predict ==
    /\ pc = "predict"
    /\ \E label \in {0, 1} :
        /\ prediction' = label
        /\ queries' = Append(queries,
               Call("predict", "base", heap[input_data], TRUE, label))
    /\ pc' = "predict_proba"
    /\ UNCHANGED << procVars, page, submitted, formVars, encVars, heap,
                    input_data, what_if_data, probability, changes, delivered >>

\* probability = model.predict_proba(input_data)[0][1]
PredictProba ==
    /\ pc = "predict_proba"
    /\ \E p \in ProbLevels :
        /\ probability' = p
        /\ queries' = Append(queries,
               Call("predict_proba", "base", heap[input_data], TRUE, p))
    /\ pc' = "show"
    /\ UNCHANGED << procVars, page, submitted, formVars, encVars, heap,
                    input_data, what_if_data, prediction, changes, delivered >>

\* an element written to the page
Element(kind, msg, arg, val) ==
    [kind |-> kind, msg |-> msg, arg |-> arg, val |-> val]

\* create_gauge(probability): the bar colour
GaugeBar(p) ==
    IF 10 * p > 6 * MaxProb THEN "red"
    ELSE IF 10 * p > 3 * MaxProb THEN "orange" ELSE "green"

\* the prediction result: age, BMI, label and gauge
ShowResult ==
    /\ pc = "show"
    /\ delivered' = delivered \o
          << Element("write", "Age", "", age),
             Element("write", "BMI", "", bmi),
             Element("success", "Label",
                     IF prediction = 1 THEN "AtRisk" ELSE "NotAtRisk",
                     prediction),
             Element("plotly_chart", "Gauge", GaugeBar(probability),
                     probability) >>
    /\ pc' = "suggest"
    /\ UNCHANGED << procVars, page, submitted, formVars, encVars, heap,
                    input_data, what_if_data, prediction, probability, changes,
                    queries >>

SuggestionsInclusive(bmi_, glucose_, insulin_, bp_, fhe) ==
    (IF bmi_ >= BmiThreshold * 100
        THEN << Element("warning", "BmiHigh", "", 0) >> ELSE << >>)
    \o (IF glucose_ >= GlucoseThreshold
        THEN << Element("warning", "GlucoseElevated", "", 0) >> ELSE << >>)
    \o (IF insulin_ >= InsulinThreshold
        THEN << Element("warning", "InsulinElevated", "", 0) >> ELSE << >>)
    \o (IF bp_ >= BloodPressureThreshold
        THEN << Element("warning", "HighBloodPressure", "", 0) >> ELSE << >>)
    \o (IF fhe # 0
        THEN << Element("info", "FamilyHistory", "", 0) >> ELSE << >>)

\* the five if statements of the health suggestions, in their order
Suggestions(bmi_, glucose_, insulin_, bp_, fhe) ==
    (IF bmi_ > BmiThreshold * 100
        THEN << Element("warning", "BmiHigh", "", 0) >> ELSE << >>)
    \o (IF glucose_ > GlucoseThreshold
        THEN << Element("warning", "GlucoseElevated", "", 0) >> ELSE << >>)
    \o (IF insulin_ > InsulinThreshold
        THEN << Element("warning", "InsulinElevated", "", 0) >> ELSE << >>)
    \o (IF bp_ > BloodPressureThreshold
        THEN << Element("warning", "HighBloodPressure", "", 0) >> ELSE << >>)
    \o (IF fhe # 0
        THEN << Element("info", "FamilyHistory", "", 0) >> ELSE << >>)

Suggest ==
    /\ pc = "suggest"
    /\ delivered' = delivered \o
          Suggestions(bmi, glucose, insulin, blood_pressure,
                      family_history_encoded)
    /\ pc' = "whatif"
    /\ UNCHANGED << procVars, page, submitted, formVars, encVars, heap,
                    input_data, what_if_data, prediction, probability, changes,
                    queries >>

WhatIfGuardAlways(prediction_) == TRUE

\* if prediction == 1:
WhatIfGuard(prediction_) == prediction_ = 1

ProbeOrderGlucoseFirst == << "Glucose", "BMI", "Insulin" >>

\* the three probe blocks, in the order they are written
ProbeOrder == << "BMI", "Glucose", "Insulin" >>

PcIf    == [BMI |-> "if_BMI", Glucose |-> "if_Glucose", Insulin |-> "if_Insulin"]
PcQuery == [BMI |-> "query_BMI", Glucose |-> "query_Glucose",
            Insulin |-> "query_Insulin"]
PcReset == [BMI |-> "reset_BMI", Glucose |-> "reset_Glucose",
            Insulin |-> "reset_Insulin"]

\* where the script goes after the block of factor f
PcAfter(f) ==
    LET i == CHOOSE k \in 1..Len(ProbeOrder) : ProbeOrder[k] = f
    IN  IF i < Len(ProbeOrder) THEN PcIf[ProbeOrder[i + 1]] ELSE "report"

\* what_if_data = input_data.copy(); changes = {}
WhatIf ==
    /\ pc = "whatif"
    /\ IF WhatIfGuard(prediction)
          THEN /\ what_if_data' = CopyTarget(input_data)
               /\ heap' = [heap EXCEPT ![CopyTarget(input_data)] =
                                           heap[input_data]]
               /\ pc' = PcIf[ProbeOrder[1]]
          ELSE /\ pc' = "done"
               /\ UNCHANGED << what_if_data, heap >>
    /\ changes' = << >>
    /\ UNCHANGED << procVars, page, submitted, formVars, encVars, input_data,
                    prediction, probability, queries, delivered >>

\* the script variable a probe block tests and restores
RawValue(f) ==
    CASE f = "BMI" -> bmi
      [] f = "Glucose" -> glucose
      [] f = "Insulin" -> insulin

\* if bmi > 22: / if glucose > 110: / if insulin > 25:
ProbeCondition(f) ==
    CASE f = "BMI" -> bmi > BmiThreshold * 100
      [] f = "Glucose" -> glucose > GlucoseThreshold
      [] f = "Insulin" -> insulin > InsulinThreshold

\* the healthy value a probe block writes
HealthyValue(f) ==
    CASE f = "BMI" -> HealthyBMI * 100
      [] f = "Glucose" -> HealthyGlucose
      [] f = "Insulin" -> HealthyInsulin

ResetValueStale(f) == HealthyValue(f)

\* the value the "# Reset" line of a probe block writes back
ResetValue(f) == RawValue(f)

\* changes[k] = v on a dict kept as its items in insertion order
DictSet(d, k, v) ==
    IF \E i \in 1..Len(d) : d[i][1] = k
       THEN [i \in 1..Len(d) |-> IF d[i][1] = k THEN << k, v >> ELSE d[i]]
       ELSE Append(d, << k, v >>)

\* if <condition>: what_if_data[f] = <healthy value>
ProbePerturb(f) ==
    /\ pc = PcIf[f]
    /\ IF ProbeCondition(f)
          THEN /\ heap' = [heap EXCEPT ![what_if_data] =
                              SetCol(heap[what_if_data], f, HealthyValue(f))]
               /\ pc' = PcQuery[f]
          ELSE /\ pc' = PcAfter(f)
               /\ UNCHANGED heap
    /\ UNCHANGED << procVars, page, submitted, formVars, encVars, input_data,
                    what_if_data, prediction, probability, changes, queries,
                    delivered >>

\* new_prob = model.predict_proba(what_if_data)[0][1]
\* changes[f] = probability - new_prob
ProbeQuery(f) ==
    /\ pc = PcQuery[f]
    /\ \E new_prob \in ProbLevels :
        /\ queries' = Append(queries,
               Call("predict_proba", f, heap[what_if_data], TRUE, new_prob))
        /\ changes' = DictSet(changes, f, probability - new_prob)
    /\ pc' = PcReset[f]
    /\ UNCHANGED << procVars, page, submitted, formVars, encVars, heap,
                    input_data, what_if_data, prediction, probability,
                    delivered >>

\* what_if_data[f] = <original value>  # Reset
ProbeReset(f) ==
    /\ pc = PcReset[f]
    /\ heap' = [heap EXCEPT ![what_if_data] =
                   SetCol(heap[what_if_data], f, ResetValue(f))]
    /\ pc' = PcAfter(f)
    /\ UNCHANGED << procVars, page, submitted, formVars, encVars, input_data,
                    what_if_data, prediction, probability, changes, queries,
                    delivered >>

RECURSIVE MaxFrom(_, _, _)
MaxFrom(d, i, best) ==
    IF i > Len(d) THEN best
    ELSE MaxFrom(d, i + 1, IF d[i][2] > d[best][2] THEN i ELSE best)

MaxKeyLast(d) ==
    LET m == CHOOSE i \in 1..Len(d) :
                 /\ \A j \in 1..Len(d) : d[j][2] <= d[i][2]
                 /\ \A j \in (i + 1)..Len(d) : d[j][2] < d[i][2]
    IN  d[m][1]

\* max(changes, key=changes.get): the first key with the largest value
MaxKey(d) == d[MaxFrom(d, 2, 1)][1]

\* changes[k]
DictGet(d, k) == d[CHOOSE i \in 1..Len(d) : d[i][1] = k][2]

\* drop = changes[best_factor] * 100, shown as {drop:.1f}: tenths of a point
Drop(delta) == RoundDiv(delta * 1000, MaxProb)

\* if changes: best_factor = max(...); st.info(...)
Report ==
    /\ pc = "report"
    /\ IF changes # << >>
          THEN LET best_factor == MaxKey(changes)
               IN  delivered' = Append(delivered,
                       Element("info", "WhatIf", best_factor,
                               Drop(DictGet(changes, best_factor))))
          ELSE UNCHANGED delivered
    /\ pc' = "done"
    /\ UNCHANGED << procVars, page, submitted, formVars, encVars, heap,
                    input_data, what_if_data, prediction, probability, changes,
                    queries >>

\* the frame a classifier call at this position is given
PendingCall ==
    CASE pc = "predict" -> Call("predict", "base", heap[input_data], FALSE, Unbound)
      [] pc = "predict_proba" ->
            Call("predict_proba", "base", heap[input_data], FALSE, Unbound)
      [] OTHER ->
            LET f == CHOOSE g \in DOMAIN PcQuery : PcQuery[g] = pc
            IN  Call("predict_proba", f, heap[what_if_data], FALSE, Unbound)

\* a classifier call raises: the script run stops where it is
ClassifierRaises ==
    /\ pc \in {"predict", "predict_proba"} \cup {PcQuery[f] : f \in DOMAIN PcQuery}
    /\ queries' = Append(queries, PendingCall)
    /\ pc' = "error"
    /\ UNCHANGED << procVars, page, submitted, formVars, encVars, heap,
                    input_data, what_if_data, prediction, probability, changes,
                    delivered >>

\* the next interaction reruns the script from its first line
Rerun ==
    /\ pc \in {"done", "error"}
    /\ run < MaxRuns
    /\ run' = run + 1
    /\ pc' = "start"
    /\ model' = 0
    /\ page' = None /\ submitted' = FALSE
    /\ age' = Unbound /\ height' = Unbound /\ weight' = Unbound
    /\ glucose' = Unbound /\ insulin' = Unbound /\ blood_pressure' = Unbound
    /\ sex' = None /\ activity' = None /\ family_history' = None
    /\ bmi' = Unbound /\ sex_encoded' = Unbound
    /\ activity_encoded' = Unbound /\ family_history_encoded' = Unbound
    /\ heap' = [r \in Refs |-> None]
    /\ input_data' = None /\ what_if_data' = None
    /\ prediction' = Unbound /\ probability' = Unbound
    /\ changes' = << >> /\ queries' = << >> /\ delivered' = << >>
    /\ UNCHANGED loads

Next ==
    \/ LoadModel
    \/ SelectPage
    \/ About
    \/ Form
    \/ Encode
    \/ Predict
    \/ PredictProba
    \/ ShowResult
    \/ Suggest
    \/ WhatIf
    \/ \E f \in DOMAIN PcIf : ProbePerturb(f)
    \/ \E f \in DOMAIN PcIf : ProbeQuery(f)
    \/ \E f \in DOMAIN PcIf : ProbeReset(f)
    \/ Report
    \/ ClassifierRaises
    \/ Rerun

Spec == Init /\ [][Next]_vars

\* ------------------------------------------------------------ properties
\* the fixed factor order and reference values the properties are stated in
FixedOrder == << "BMI", "Glucose", "Insulin" >>

Rank(f) == CHOOSE k \in 1..3 : FixedOrder[k] = f

ReferenceValue(f) ==
    CASE f = "BMI" -> 2000 [] f = "Glucose" -> 100 [] f = "Insulin" -> 20

\* the factor's raw value exceeded its threshold
Exceeded(f) ==
    CASE f = "BMI" -> bmi > 2200
      [] f = "Glucose" -> glucose > 110
      [] f = "Insulin" -> insulin > 25

EligibleSeq == SelectSeq(FixedOrder, Exceeded)

\* the classifier calls of this run that are probes
ProbeCalls == SelectSeq(queries, LAMBDA q : q.probe # "base")

\* the counterfactual results written by this run
IsCounterfactual(e) == e.msg = "WhatIf"

Counterfactuals == SelectSeq(delivered, IsCounterfactual)

\* the probability the classifier returned for the probe of factor f
ProbeResult(f) ==
    LET i == CHOOSE k \in 1..Len(queries) : queries[k].probe = f
    IN  queries[i].result

\* C1: every probe call for a factor F is given the vector of the base
\* classification with only F replaced, F holding its reference value
\* (BMI 20, Glucose 100, Insulin 20); no probe carries an earlier probe's
\* substitution.
C1_SingleFactorProbing ==
    \A i \in 1..Len(queries) :
        queries[i].probe # "base" =>
            LET f == queries[i].probe
                original == queries[1].arg
            IN  /\ queries[i].arg.columns = original.columns
                /\ Len(queries[i].arg.values) = 8
                /\ \A c \in 1..8 :
                      queries[i].arg.values[c] =
                          IF original.columns[c] = f THEN ReferenceValue(f)
                          ELSE original.values[c]

\* all three factors were probed in one request
C1_Witness ==
    /\ pc = "done"
    /\ Len(ProbeCalls) = 3
    /\ ProbeCalls[3].probe = "Insulin"

\* C2: a counterfactual result is written only for an AtRisk label with at
\* least one of bmi > 22, glucose > 110, insulin > 25; its factor is one whose
\* threshold was exceeded; blood pressure and family history are never probed
\* or reported.
C2_CounterfactualEligibility ==
    /\ \A i \in 1..Len(delivered) :
          IsCounterfactual(delivered[i]) =>
              /\ queries[1].fn = "predict" /\ queries[1].result = 1
              /\ bmi > 2200 \/ glucose > 110 \/ insulin > 25
              /\ delivered[i].arg \in {"BMI", "Glucose", "Insulin"}
              /\ Exceeded(delivered[i].arg)
    /\ \A i \in 1..Len(queries) :
          /\ queries[i].probe \in {"base", "BMI", "Glucose", "Insulin"}
          /\ queries[i].arg.values[6] = blood_pressure
          /\ queries[i].arg.values[8] = (IF family_history = "Yes" THEN 1 ELSE 0)
    /\ (pc = "done" /\ submitted /\ ~(bmi > 2200 \/ glucose > 110 \/ insulin > 25))
          => Counterfactuals = << >>

\* an AtRisk request with only Glucose over its threshold reports Glucose
C2_Witness ==
    /\ pc = "done"
    /\ prediction = 1
    /\ bmi <= 2200 /\ glucose > 110 /\ insulin <= 25
    /\ blood_pressure > 120 /\ family_history = "Yes"
    /\ Len(Counterfactuals) = 1
    /\ Counterfactuals[1].arg = "Glucose"

\* C3: with a non-empty eligible set the reported factor has the largest
\* delta = p0 - p_i among the eligible factors, the earliest of BMI, Glucose,
\* Insulin among those that share it, and exactly one factor is reported.
C3_BestFactor ==
    /\ Len(Counterfactuals) <= 1
    /\ (pc = "done" /\ submitted /\ prediction = 1 /\ EligibleSeq # << >>) =>
          /\ Len(Counterfactuals) = 1
          /\ LET best == Counterfactuals[1].arg
                 p0 == queries[2].result
                 Delta(f) == p0 - ProbeResult(f)
             IN  /\ Exceeded(best)
                 /\ \A k \in 1..Len(EligibleSeq) :
                       LET g == EligibleSeq[k]
                       IN  /\ Delta(best) >= Delta(g)
                           /\ Delta(best) = Delta(g) => Rank(best) <= Rank(g)

\* Glucose and Insulin tie for the largest delta and Glucose is reported
C3_Witness ==
    /\ pc = "done"
    /\ EligibleSeq = << "Glucose", "Insulin" >>
    /\ Len(Counterfactuals) = 1
    /\ Counterfactuals[1].arg = "Glucose"
    /\ ProbeResult("Glucose") = ProbeResult("Insulin")
    /\ ProbeResult("Glucose") < queries[2].result

\* the suggestion table: message, severity and condition, in order
SuggestionTable ==
    << "BmiHigh", "GlucoseElevated", "InsulinElevated", "HighBloodPressure",
       "FamilyHistory" >>

SuggestionSeverity(m) == IF m = "FamilyHistory" THEN "info" ELSE "warning"

SuggestionHolds(m) ==
    CASE m = "BmiHigh" -> bmi > 2200
      [] m = "GlucoseElevated" -> glucose > 110
      [] m = "InsulinElevated" -> insulin > 25
      [] m = "HighBloodPressure" -> blood_pressure > 120
      [] m = "FamilyHistory" -> family_history = "Yes"

IsSuggestion(e) == \E k \in 1..5 : SuggestionTable[k] = e.msg

SuggestionsWritten == SelectSeq(delivered, IsSuggestion)

SuggestionsDone ==
    pc \notin {"start", "page", "about", "form", "encode", "predict",
               "predict_proba", "show", "suggest"}
    /\ Len(delivered) > 0

\* C4: the suggestions written are exactly the rows of the table whose
\* condition (bmi > 22, glucose > 110, insulin > 25, bloodPressure > 120,
\* family history) holds, in table order, with strict inequalities, whatever
\* the label.
C4_SuggestionRules ==
    SuggestionsDone =>
        LET written  == SuggestionsWritten
            expected == SelectSeq(SuggestionTable, SuggestionHolds)
        IN  /\ Len(written) = Len(expected)
            /\ \A i \in 1..Len(written) :
                  /\ written[i].msg = expected[i]
                  /\ written[i].kind = SuggestionSeverity(expected[i])

\* a NotAtRisk request with BMI 22.0, insulin 25 (both at their threshold),
\* glucose 130, blood pressure 130 and a family history
C4_Witness ==
    /\ pc = "done"
    /\ prediction = 0
    /\ bmi = 2200 /\ glucose = 130 /\ insulin = 25 /\ blood_pressure = 130
    /\ family_history = "Yes"
    /\ Len(SuggestionsWritten) = 3
    /\ SuggestionsWritten[1].msg = "GlucoseElevated"
    /\ SuggestionsWritten[3].msg = "FamilyHistory"

\* C5: when a step of a request has failed, nothing of that request's result
\* has been written to the page.
C5_NoPartialResult == pc = "error" => delivered = << >>

\* the (fn, probe) pair the i-th classifier call of a request must be
ExpectedCall(i) ==
    IF i = 1 THEN << "predict", "base" >>
    ELSE IF i = 2 THEN << "predict_proba", "base" >>
    ELSE << "predict_proba", EligibleSeq[i - 2] >>

\* C7: label and probability are queried first, on the unperturbed vector;
\* probes are issued only for an AtRisk label, one per eligible factor in the
\* order BMI, Glucose, Insulin, so at most 3; a NotAtRisk request issues none.
\* A run that has not finished, or that a raising call stopped, has issued a
\* prefix of these calls.
C7_QueryOrder ==
    /\ \A i \in 1..Len(queries) :
          /\ i >= 3 => /\ queries[1].result = 1
                       /\ i - 2 <= Len(EligibleSeq)
          /\ << queries[i].fn, queries[i].probe >> = ExpectedCall(i)
          /\ i <= 2 => queries[i].arg = heap[input_data]
          /\ i < Len(queries) => queries[i].ok
    /\ Len(ProbeCalls) <= 3
    /\ (pc = "done" /\ submitted) =>
          /\ Len(queries) >= 2
          /\ Len(ProbeCalls) =
                IF queries[1].result = 1 THEN Len(EligibleSeq) ELSE 0

\* an AtRisk request probed BMI, then Glucose, then Insulin
C7_Witness ==
    /\ pc = "done"
    /\ Len(queries) = 5
    /\ queries[3].probe = "BMI"
    /\ queries[4].probe = "Glucose"
    /\ queries[5].probe = "Insulin"
    /\ queries[1].result = 1

DecodeSex(n) == CASE n = 1 -> "Male" [] n = 0 -> "Female"

DecodeActivity(n) ==
    CASE n = 0 -> "Sedentary" [] n = 1 -> "Moderate" [] n = 2 -> "Active"

DecodeFamilyHistory(n) == CASE n = 1 -> "Yes" [] n = 0 -> "No"

\* C8: Sex is encoded Male 1 / Female 0, activity Sedentary 0 / Moderate 1 /
\* Active 2, family history Yes 1 / No 0, so decoding recovers the inputs;
\* the vector has the 8 fields in the order Age, Sex, BMI, Glucose, Insulin,
\* BloodPressure, PhysicalActivityLevel, FamilyHistory, with Age, Glucose,
\* Insulin and BloodPressure copied from the input.  Every vector given to
\* the classifier keeps that order and those fields (a probe replaces only
\* its own factor).
C8_Encoding ==
    /\ input_data # None =>
          LET v == heap[input_data]
          IN  /\ v.columns = << "Age", "Sex", "BMI", "Glucose", "Insulin",
                                "BloodPressure", "PhysicalActivityLevel",
                                "FamilyHistory" >>
              /\ Len(v.values) = 8
              /\ v.values[1] = age
              /\ v.values[2] \in {0, 1} /\ DecodeSex(v.values[2]) = sex
              /\ v.values[4] = glucose
              /\ v.values[5] = insulin
              /\ v.values[6] = blood_pressure
              /\ v.values[7] \in {0, 1, 2}
              /\ DecodeActivity(v.values[7]) = activity
              /\ v.values[8] \in {0, 1}
              /\ DecodeFamilyHistory(v.values[8]) = family_history
    /\ \A i \in 1..Len(queries) :
          LET q == queries[i]
          IN  /\ q.arg.columns = << "Age", "Sex", "BMI", "Glucose", "Insulin",
                                    "BloodPressure", "PhysicalActivityLevel",
                                    "FamilyHistory" >>
              /\ q.arg.values[1] = age
              /\ DecodeSex(q.arg.values[2]) = sex
              /\ q.probe # "Glucose" => q.arg.values[4] = glucose
              /\ q.probe # "Insulin" => q.arg.values[5] = insulin
              /\ q.arg.values[6] = blood_pressure
              /\ DecodeActivity(q.arg.values[7]) = activity
              /\ DecodeFamilyHistory(q.arg.values[8]) = family_history

\* a Female, Active patient with a family history was classified
C8_Witness ==
    /\ pc = "done"
    /\ sex = "Female" /\ activity = "Active" /\ family_history = "Yes"
    /\ age = 17
    /\ Len(queries) >= 2

ProbingOver ==
    what_if_data # None
    /\ pc \in {"if_BMI", "if_Glucose", "if_Insulin", "report", "done"}

\* C9: from encoding on, through and after the probes, input_data holds the
\* 8 values it was built with and was classified with; only the working copy
\* is written, and between and after the probes the working copy equals
\* input_data again.
C9_OriginalUntouched ==
    /\ input_data # None =>
          /\ heap[input_data].values =
                << age, sex_encoded, bmi, glucose, insulin, blood_pressure,
                   activity_encoded, family_history_encoded >>
          /\ Len(queries) >= 1 => heap[input_data] = queries[1].arg
    /\ ProbingOver => heap[what_if_data] = heap[input_data]

\* two factors were probed and the run has finished
C9_Witness ==
    /\ pc = "done"
    /\ what_if_data # None
    /\ Len(changes) >= 2

\* C10: the classifier is loaded once per process and every classifier call
\* uses that one handle.
C10_LoadedOnce ==
    /\ loads <= 1
    /\ \A i \in 1..Len(queries) : queries[i].handle = 1

====
